---------------------------- MODULE Spec2Model ----------------------------
(***************************************************************************)
(* A model of rc-bridge: the pairing, framing and channel-hopping state    *)
(* machine of BasicSender / BasicReceiver over ESP-NOW.                   *)
(*                                                                         *)
(* Frames are byte sequences (TLA+ sequences are 1-indexed, so the tag     *)
(* data[0] of the code is data[1] here).  A MAC address is a 6-byte        *)
(* sequence, a key a 16-byte sequence, the peer blob their 22-byte         *)
(* concatenation.  The radio substrate is the environment: every           *)
(* esp_now_send may be rejected, an accepted frame may be lost, and its    *)
(* send callback is queued and runs later, interleaved with everything     *)
(* else; wifi_set_channel may fail.                                        *)
(***************************************************************************)
EXTENDS Integers, Sequences, FiniteSets, TLC

(* ------------------------- program constants -------------------------- *)
MIN_CHANNEL == 1
MAX_CHANNEL == 13
INIT_CHANNEL == 7
CMD_SEARCH == 1
RPL_SEARCH == 2
CMD_HOP == 3
RPL_HOP == 4
CMD_DATA == 5
\* sizeof(peer.addr), sizeof(peer.key), sizeof(peer)
ADDR_LEN == 6
KEY_LEN == 16
\* the largest payload send() accepts, and the size of its frame buffer
MAX_PAYLOAD == 249
MAX_FRAME == 250
\* the main loop's call role.send(6, "hello")
HELLO_LEN == 6
\* uint8_t / int8_t arithmetic
U8 == 256
\* radio_quality is a float in [0,1]; the model keeps it in units of 1e-7
\* (about one float32 ulp), so 1.0f is Q_ONE and 0.75f is Q_THRESHOLD
Q_ONE == 10000000
Q_THRESHOLD == 7500000
\* cw = 1 - quality_weight = 0.99, quality_weight = 0.01, in hundredths
Q_CW == 99
Q_SCALE == 100

(* ------------------------------ bounds -------------------------------- *)
\* how many different keys random() can produce
NumKeys == 2
\* how many SEARCH broadcasts the Sender's discovery loop makes
MaxSearch == 2
\* how many send() calls the Sender's main loop makes
MaxSends == 1
\* how many send callbacks may be pending on one endpoint
MaxPending == 2
\* how many received frames may wait for an endpoint's receive callback
MaxRx == 1
\* how many times an endpoint is power-cycled
MaxBoots == 1
\* how many times the web handler calls reset()
MaxResets == 2
\* how many failed reports in a row radio_quality may have behind it
MaxDecay == 40
\* how many frames a third station puts on the air
MaxInject == 3
\* how many pairing frames a third station sends the two endpoints
MaxPeerFrames == 1

(* ------------------------------ values -------------------------------- *)
Sender == "S"
Receiver == "R"
Endpoints == {Sender, Receiver}
Other(e) == IF e = Sender THEN Receiver ELSE Sender

Bytes(len, b) == [i \in 1..len |-> b]
MacOf(e) == IF e = Sender THEN <<2, 0, 0, 0, 0, 1>> ELSE <<2, 0, 0, 0, 0, 2>>
\* a station that is neither endpoint
MacX == <<2, 0, 0, 0, 0, 9>>
Broadcast == Bytes(ADDR_LEN, 255)
ZeroMac == Bytes(ADDR_LEN, 0)
ZeroKey == Bytes(KEY_LEN, 0)
\* the keys the sixteen random(0, 256) calls may produce
KeyBytes(k) == [i \in 1..KEY_LEN |-> (k * 16 + i) % U8]
Keys == {KeyBytes(k) : k \in 1..NumKeys}

\* a layout with the key before the address (not what the code has)
PeerBytesKeyFirst(p) == p.key \o p.addr

\* the peer struct: addr[6] then key[16], and its 22 bytes in memory
PeerRec(a, k) == [addr |-> a, key |-> k]
PeerBytes(p) == p.addr \o p.key
BytesPeer(b) == PeerRec(SubSeq(b, 1, ADDR_LEN), SubSeq(b, ADDR_LEN + 1, ADDR_LEN + KEY_LEN))
SizeofPeer == ADDR_LEN + KEY_LEN

NoBlob == [exists |-> FALSE, bytes |-> <<>>]
Blob(b) == [exists |-> TRUE, bytes |-> b]

VARIABLES
    pc,               \* where each endpoint's setup()/loop() is
    up,               \* esp-now initialised and both callbacks registered
    matched,          \* RCBridgeBase::matched
    peer,             \* RCBridgeBase::peer
    loaded,           \* this boot took its peer from the blob
    blob,             \* the file peer.info of each endpoint
    wifi_channel,     \* the radio's channel of each endpoint
    radio_quality,    \* BasicSender::radio_quality, in units of 1e-7
    channel,          \* BasicReceiver::channel
    channel_direction,\* BasicReceiver::channel_direction
    new_channel,      \* BasicReceiver::new_channel
    rxq,              \* frames received by the radio, not yet upcalled
    cbq,              \* send reports of the radio, not yet upcalled
    n,                \* how many broadcasts, send(), reset() calls, air frames and
                      \* reboots so far
    hops,             \* the hop exchanges so far (for stating properties)
    last              \* what the last step did (for stating properties)

vars == <<pc, up, matched, peer, loaded, blob, wifi_channel, radio_quality,
          channel, channel_direction, new_channel, rxq, cbq, n, hops, last>>

\* the calls counted against the bounds
NoCalls == [search |-> 0, send |-> 0, reset |-> 0, air |-> 0, boot |-> 0]

\* the hop exchanges so far: hop commands the Sender's onSent handed to
\* esp_now_send, hop commands the Receiver answered, hop replies the Sender
\* handled, hop reply reports the Receiver handled, and the Receiver's
\* channel and candidate at its latest answer
NoHops == [cmd |-> 0, req |-> 0, rx |-> 0, ack |-> 0, prev |-> 0, cand |-> 0]

\* the record of a step: the upcall or call made, what it was given, and the
\* calls it made to the substrate and to the application
NoStep == [act |-> "none", who |-> "-", data |-> <<>>, from |-> ZeroMac,
           status |-> -1, acked |-> <<>>, was_matched |-> FALSE,
           sends |-> <<>>, setch |-> <<>>, on_data |-> <<>>, hooks |-> 0,
           added |-> <<>>, ret |-> "void"]

Step(a, e) == [NoStep EXCEPT !.act = a, !.who = e, !.was_matched = matched[e]]


(* ------------------------- the radio substrate ------------------------ *)
\* The outcomes the substrate may give one esp_now_send(dst, data) of e, with
\* cq and rq the queues as the caller leaves them: acc, the call returns 0;
\* dlv, the frame reaches the other endpoint's receive callback; st, the
\* status its send callback will report.  A unicast to the other endpoint
\* is reported acked (st = 0) only if it was received; a broadcast has no
\* confirmed recipient, and the third station acks what it likes.
Reaches(rq, e, dst) ==
    /\ dst \in {Broadcast, MacOf(Other(e))}
    /\ up[Other(e)]
    /\ Len(rq[Other(e)]) < MaxRx

SendOutcome(cq, rq, e, dst, acc, dlv, st) ==
    /\ acc => (up[e] /\ Len(cq[e]) < MaxPending)
    /\ ~acc => (~dlv /\ st = 1)
    /\ dlv => (acc /\ Reaches(rq, e, dst))
    /\ (st = 0 /\ dst \notin {Broadcast, MacX}) => dlv

\* no esp_now_send in this step: the outcome is not a choice
NoSend(acc, dlv, st) == ~acc /\ ~dlv /\ st = 1

CbqAfter(cq, e, dst, data, acc, st) ==
    IF acc THEN [cq EXCEPT ![e] = Append(@, [dst |-> dst, data |-> data, status |-> st])]
    ELSE cq

RxqAfter(rq, e, data, dlv) ==
    IF dlv THEN [rq EXCEPT ![Other(e)] = Append(@, [from |-> MacOf(e), data |-> data])]
    ELSE rq

SendCall(dst, data, acc) == [dst |-> dst, data |-> data, ok |-> acc]

\* wifi_set_channel(c): the substrate takes the channels 1..13 and may fail
\* on any of them; ok is its return value
SetChannelOutcome(c, ok) == ok => c \in MIN_CHANNEL..MAX_CHANNEL

SetCall(c, ok) == [channel |-> c, ok |-> ok]

(* ------------------------------- Init --------------------------------- *)
\* the blob a finished pairing with key k leaves on endpoint e
PairedBlob(e, k) == Blob(PeerBytes(PeerRec(MacOf(Other(e)), k)))

\* Power-on: the role object is a global (rc-bridge.ino), so its members
\* start zeroed; each endpoint's flash holds no peer blob or the blob of an
\* earlier pairing.
Init ==
    /\ pc = [e \in Endpoints |-> "off"]
    /\ up = [e \in Endpoints |-> FALSE]
    /\ matched = [e \in Endpoints |-> FALSE]
    /\ peer = [e \in Endpoints |-> PeerRec(ZeroMac, ZeroKey)]
    /\ loaded = [e \in Endpoints |-> FALSE]
    /\ blob \in {b \in [Endpoints -> {NoBlob, PairedBlob(Sender, KeyBytes(1)),
                                     PairedBlob(Receiver, KeyBytes(1))}] :
                    \A e \in Endpoints : b[e] \in {NoBlob, PairedBlob(e, KeyBytes(1))}}
    /\ wifi_channel = [e \in Endpoints |-> 0]
    /\ radio_quality = 0
    /\ channel = 0
    /\ channel_direction = 0
    /\ new_channel = 0
    /\ rxq = [e \in Endpoints |-> <<>>]
    /\ cbq = [e \in Endpoints |-> <<>>]
    /\ n = NoCalls
    /\ hops = NoHops
    /\ last = NoStep


(* ------------------------- RCBridgeBase::begin ------------------------ *)
\* BasicSender::begin / BasicReceiver::begin set the role's own fields
\* before they call RCBridgeBase::begin
RoleBegin(e) ==
    /\ radio_quality' = IF e = Sender THEN Q_ONE ELSE radio_quality
    /\ channel' = IF e = Receiver THEN INIT_CHANNEL ELSE channel
    /\ channel_direction' = IF e = Receiver THEN 1 ELSE channel_direction
    /\ UNCHANGED new_channel

\* a begin() that runs discovery whatever it loaded (not what the code does)
AfterLoadSearches(ok) == "search"

\* begin() with a blob: it returns after add_peer, or at the first failure,
\* and setup() goes on to loop()
AfterLoad(ok) == IF ok THEN "run" ELSE "failed"

BeginFaults == {"none", "config", "channel", "espnow", "open", "addpeer"}

\* setup() calls role.begin(): everything up to the end of begin() when the
\* blob exists, up to the entry of searchForPeer() when it does not.  fault
\* names the first substrate call that fails.
Begin(e, fault) ==
    /\ pc[e] = "off"
    /\ RoleBegin(e)
    /\ UNCHANGED <<blob, rxq, cbq, n, hops>>
    /\ IF fault = "config"
       THEN \* the web/wifi setup failed before line 179
            /\ pc' = [pc EXCEPT ![e] = "failed"]
            /\ last' = [Step("begin", e) EXCEPT !.ret = "false"]
            /\ UNCHANGED <<up, matched, peer, loaded, wifi_channel>>
       ELSE IF fault = "channel"
       THEN /\ pc' = [pc EXCEPT ![e] = "failed"]
            /\ matched' = [matched EXCEPT ![e] = FALSE]
            /\ last' = [Step("begin", e) EXCEPT !.ret = "false",
                            !.setch = <<SetCall(INIT_CHANNEL, FALSE)>>]
            /\ UNCHANGED <<up, peer, loaded, wifi_channel>>
       ELSE IF fault = "espnow"
       THEN /\ pc' = [pc EXCEPT ![e] = "failed"]
            /\ matched' = [matched EXCEPT ![e] = FALSE]
            /\ wifi_channel' = [wifi_channel EXCEPT ![e] = INIT_CHANNEL]
            /\ last' = [Step("begin", e) EXCEPT !.ret = "false",
                            !.setch = <<SetCall(INIT_CHANNEL, TRUE)>>]
            /\ UNCHANGED <<up, peer, loaded>>
       ELSE /\ wifi_channel' = [wifi_channel EXCEPT ![e] = INIT_CHANNEL]
            /\ up' = [up EXCEPT ![e] = TRUE]
            /\ IF blob[e].exists
               THEN IF fault = "open"
                    THEN /\ pc' = [pc EXCEPT ![e] = "failed"]
                         /\ matched' = [matched EXCEPT ![e] = FALSE]
                         /\ last' = [Step("begin", e) EXCEPT !.ret = "false",
                                         !.setch = <<SetCall(INIT_CHANNEL, TRUE)>>]
                         /\ UNCHANGED <<peer, loaded>>
                    ELSE LET nread == IF Len(blob[e].bytes) < SizeofPeer
                                      THEN Len(blob[e].bytes) ELSE SizeofPeer
                             mem == SubSeq(blob[e].bytes, 1, nread)
                                    \o SubSeq(PeerBytes(peer[e]), nread + 1, SizeofPeer)
                             ok == nread = SizeofPeer /\ fault # "addpeer"
                         IN  /\ peer' = [peer EXCEPT ![e] = BytesPeer(mem)]
                             /\ loaded' = [loaded EXCEPT ![e] = (nread = SizeofPeer)]
                             /\ matched' = [matched EXCEPT ![e] = ok]
                             /\ pc' = [pc EXCEPT ![e] = AfterLoad(ok)]
                             /\ last' = [Step("begin", e) EXCEPT
                                             !.ret = IF ok THEN "true" ELSE "false",
                                             !.setch = <<SetCall(INIT_CHANNEL, TRUE)>>,
                                             !.added = IF nread = SizeofPeer
                                                       THEN <<BytesPeer(mem)>> ELSE <<>>]
               ELSE /\ fault = "none"
                    /\ pc' = [pc EXCEPT ![e] = "search"]
                    /\ matched' = [matched EXCEPT ![e] = FALSE]
                    /\ last' = [Step("begin", e) EXCEPT
                                    !.setch = <<SetCall(INIT_CHANNEL, TRUE)>>]
                    /\ UNCHANGED <<peer, loaded>>

\* a discovery loop that does not look at matched (not what the code does)
SenderSearchAnyway(acc, dlv, st) ==
    /\ pc[Sender] = "search"
    /\ n.search < MaxSearch
    /\ SendOutcome(cbq, rxq, Sender, Broadcast, acc, dlv, st)
    /\ n' = [n EXCEPT !.search = @ + 1]
    /\ cbq' = CbqAfter(cbq, Sender, Broadcast, <<CMD_SEARCH>>, acc, st)
    /\ rxq' = RxqAfter(rxq, Sender, <<CMD_SEARCH>>, dlv)
    /\ pc' = IF acc THEN pc ELSE [pc EXCEPT ![Sender] = "failed"]
    /\ last' = [Step("search", Sender) EXCEPT
                    !.sends = <<SendCall(Broadcast, <<CMD_SEARCH>>, acc)>>,
                    !.ret = IF acc THEN "void" ELSE "false"]
    /\ UNCHANGED <<up, matched, peer, loaded, blob, wifi_channel, radio_quality,
                   channel, channel_direction, new_channel, hops>>

\* BasicSender::searchForPeer, one pass of its loop that broadcasts SEARCH.
\* A rejected broadcast makes searchForPeer, and so begin(), return false.
SenderSearch(acc, dlv, st) ==
    /\ pc[Sender] = "search"
    /\ ~matched[Sender]
    /\ n.search < MaxSearch
    /\ SendOutcome(cbq, rxq, Sender, Broadcast, acc, dlv, st)
    /\ n' = [n EXCEPT !.search = @ + 1]
    /\ cbq' = CbqAfter(cbq, Sender, Broadcast, <<CMD_SEARCH>>, acc, st)
    /\ rxq' = RxqAfter(rxq, Sender, <<CMD_SEARCH>>, dlv)
    /\ pc' = IF acc THEN pc ELSE [pc EXCEPT ![Sender] = "failed"]
    /\ last' = [Step("search", Sender) EXCEPT
                    !.sends = <<SendCall(Broadcast, <<CMD_SEARCH>>, acc)>>,
                    !.ret = IF acc THEN "void" ELSE "false"]
    /\ UNCHANGED <<up, matched, peer, loaded, blob, wifi_channel, radio_quality,
                   channel, channel_direction, new_channel, hops>>

\* the first pass of that loop: with last_time = 0 it broadcasts at once
FirstSearch(acc, dlv, st) == n.search = 0 /\ SenderSearch(acc, dlv, st)

SaveFaults == {"none", "open", "write", "addpeer"}

\* The rest of begin() once searchForPeer() has seen matched: write the 22
\* bytes of peer to the blob, register the peer, set matched.
SearchDone(e, fault, nwrite) ==
    /\ pc[e] = "search"
    /\ matched[e]
    /\ fault = "write" <=> nwrite < SizeofPeer
    /\ blob' = IF fault = "open" THEN blob
               ELSE [blob EXCEPT ![e] = Blob(SubSeq(PeerBytes(peer[e]), 1, nwrite))]
    /\ pc' = [pc EXCEPT ![e] = IF fault = "none" THEN "run" ELSE "failed"]
    /\ last' = [Step("begin", e) EXCEPT
                    !.ret = IF fault = "none" THEN "true" ELSE "false",
                    !.added = IF fault \in {"none", "addpeer"} THEN <<peer[e]>> ELSE <<>>]
    /\ UNCHANGED <<up, matched, peer, loaded, wifi_channel, radio_quality, channel,
                   channel_direction, new_channel, rxq, cbq, n, hops>>

(* ------------------------- RCBridgeBase::reset ------------------------ *)
\* a reset() that also ends the running session (not what the code does)
ResetEndsSession(e, removed) ==
    /\ pc[e] # "off"
    /\ n.reset < MaxResets
    /\ n' = [n EXCEPT !.reset = @ + 1]
    /\ ~blob[e].exists => removed
    /\ blob' = IF removed THEN [blob EXCEPT ![e] = NoBlob] ELSE blob
    /\ matched' = [matched EXCEPT ![e] = FALSE]
    /\ last' = [Step("reset", e) EXCEPT !.ret = IF removed THEN "true" ELSE "false"]
    /\ UNCHANGED <<pc, up, peer, loaded, wifi_channel, radio_quality, channel,
                   channel_direction, new_channel, rxq, cbq, hops>>

\* a reset() that reports failure when there is no blob (not what the code does)
ResetNeedsBlob(e, removed) ==
    /\ pc[e] # "off"
    /\ n.reset < MaxResets
    /\ n' = [n EXCEPT !.reset = @ + 1]
    /\ blob' = IF removed THEN [blob EXCEPT ![e] = NoBlob] ELSE blob
    /\ last' = [Step("reset", e) EXCEPT
                    !.ret = IF blob[e].exists /\ removed THEN "true" ELSE "false"]
    /\ UNCHANGED <<pc, up, matched, peer, loaded, wifi_channel, radio_quality, channel,
                   channel_direction, new_channel, rxq, cbq, hops>>

\* reset(), called by the web handler of /reset, which is served from the
\* discovery loops and from loop(); removed is LittleFS.remove's result
Reset(e, removed) ==
    /\ pc[e] # "off"
    /\ n.reset < MaxResets
    /\ n' = [n EXCEPT !.reset = @ + 1]
    /\ ~blob[e].exists => removed
    /\ blob' = IF removed THEN [blob EXCEPT ![e] = NoBlob] ELSE blob
    /\ last' = [Step("reset", e) EXCEPT !.ret = IF removed THEN "true" ELSE "false"]
    /\ UNCHANGED <<pc, up, matched, peer, loaded, wifi_channel, radio_quality, channel,
                   channel_direction, new_channel, rxq, cbq, hops>>


(* --------------------------- BasicSender ------------------------------ *)
\* the application's buffer of len bytes; which picks its content
Payload(len, which) == [i \in 1..len |-> (which * 7 + i) % U8]

\* send(): the size check at its head
SendTooLarge(len) == len > MAX_PAYLOAD

\* a frame without the tag (not what the code does)
DataFrameNoTag(len, data) == SubSeq(data, 1, len)

\* send(): command[0] = CMD_DATA; memcpy(command + 1, data, len)
DataFrame(len, data) == <<CMD_DATA>> \o SubSeq(data, 1, len)

\* BasicSender::send(len, data), called from loop() whatever begin() returned
SendCalled(len, data, acc, dlv, st) ==
    /\ pc[Sender] \in {"run", "failed"}
    /\ n' = [n EXCEPT !.send = @ + 1]
    /\ UNCHANGED <<pc, up, matched, peer, loaded, blob, wifi_channel, radio_quality,
                   channel, channel_direction, new_channel, hops>>
    /\ IF SendTooLarge(len)
       THEN /\ NoSend(acc, dlv, st)
            /\ last' = [Step("send", Sender) EXCEPT !.data = data, !.ret = "false"]
            /\ UNCHANGED <<rxq, cbq>>
       ELSE LET command == DataFrame(len, data)
                dst == peer[Sender].addr
            IN  /\ SendOutcome(cbq, rxq, Sender, dst, acc, dlv, st)
                /\ cbq' = CbqAfter(cbq, Sender, dst, command, acc, st)
                /\ rxq' = RxqAfter(rxq, Sender, command, dlv)
                /\ last' = [Step("send", Sender) EXCEPT
                                !.data = data,
                                !.sends = <<SendCall(dst, command, acc)>>,
                                !.ret = IF acc THEN "true" ELSE "false"]

\* loop() calling send(), at most MaxSends times in a run
Send(len, data, acc, dlv, st) ==
    /\ n.send < MaxSends
    /\ SendCalled(len, data, acc, dlv, st)

\* onReceived, not matched: is this a search reply, {RPL_SEARCH, <key>}
IsSearchReply(data) == Len(data) = 1 + KEY_LEN /\ data[1] = RPL_SEARCH

\* onReceived, matched: is this a hop reply, {RPL_HOP, <channel>}
IsHopReply(data) == Len(data) = 2 /\ data[1] = RPL_HOP

\* BasicSender::onReceived(addr, data, len)
SenderOnReceived(ok) ==
    /\ up[Sender]
    /\ rxq[Sender] # <<>>
    /\ LET addr == Head(rxq[Sender]).from
           data == Head(rxq[Sender]).data
           step == [Step("onReceived", Sender) EXCEPT !.data = data, !.from = addr]
       IN  /\ rxq' = [rxq EXCEPT ![Sender] = Tail(@)]
           /\ UNCHANGED <<pc, up, loaded, blob, radio_quality, channel, channel_direction,
                          new_channel, cbq, n>>
           /\ hops' = IF matched[Sender] /\ IsHopReply(data)
                      THEN [hops EXCEPT !.rx = @ + 1] ELSE hops
           /\ IF ~matched[Sender]
              THEN /\ ~ok
                   /\ IF IsSearchReply(data)
                      THEN /\ peer' = [peer EXCEPT ![Sender] =
                                           PeerRec(addr, SubSeq(data, 2, 1 + KEY_LEN))]
                           /\ matched' = [matched EXCEPT ![Sender] = TRUE]
                      ELSE UNCHANGED <<peer, matched>>
                   /\ last' = step
                   /\ UNCHANGED wifi_channel
              ELSE /\ UNCHANGED <<peer, matched>>
                   /\ IF IsHopReply(data)
                      THEN /\ SetChannelOutcome(data[2], ok)
                           /\ wifi_channel' = IF ok THEN [wifi_channel EXCEPT ![Sender] = data[2]]
                                              ELSE wifi_channel
                           /\ last' = [step EXCEPT !.setch = <<SetCall(data[2], ok)>>]
                      ELSE /\ ~ok
                           /\ last' = step
                           /\ UNCHANGED wifi_channel

\* an estimator that adds the new sample without weighing down the old
\* average (not what the code does)
QualityUpdateNoDecay(q, status) ==
    (q * Q_SCALE + (IF status = 0 THEN Q_ONE ELSE 0)) \div Q_SCALE

\* onSent: radio_quality = radio_quality * cw + (status == 0) * quality_weight
QualityUpdate(q, status) ==
    (q * Q_CW + (IF status = 0 THEN Q_ONE ELSE 0)) \div Q_SCALE

\* onSent: if(radio_quality < hop_threshold)
HopTriggered(q) == q < Q_THRESHOLD

\* a reset that does not look at esp_now_send's result (not what the code does)
QualityAlwaysReset(q, acc) == Q_ONE

\* no reset at all (not what the code does)
QualityNeverReset(q, acc) == q

\* onSent: if(esp_now_send(peer.addr, &command, 1) == 0) radio_quality = 1.0f
QualityAfterHop(q, acc) == IF acc THEN Q_ONE ELSE q

\* BasicSender::onSent(addr, status)
SenderOnSent(acc, dlv, st) ==
    /\ up[Sender]
    /\ cbq[Sender] # <<>>
    /\ LET report == Head(cbq[Sender])
           cq == [cbq EXCEPT ![Sender] = Tail(@)]
           q == QualityUpdate(radio_quality, report.status)
           dst == peer[Sender].addr
           step == [Step("onSent", Sender) EXCEPT !.status = report.status,
                                                  !.acked = report.data]
       IN  /\ UNCHANGED <<pc, up, matched, peer, loaded, blob, wifi_channel, channel,
                          channel_direction, new_channel, n>>
           /\ IF ~matched[Sender]
              THEN /\ NoSend(acc, dlv, st)
                   /\ cbq' = cq
                   /\ last' = step
                   /\ UNCHANGED <<rxq, radio_quality, hops>>
              ELSE IF HopTriggered(q)
              THEN /\ SendOutcome(cq, rxq, Sender, dst, acc, dlv, st)
                   /\ cbq' = CbqAfter(cq, Sender, dst, <<CMD_HOP>>, acc, st)
                   /\ rxq' = RxqAfter(rxq, Sender, <<CMD_HOP>>, dlv)
                   /\ radio_quality' = QualityAfterHop(q, acc)
                   /\ hops' = [hops EXCEPT !.cmd = @ + 1]
                   /\ last' = [step EXCEPT !.hooks = 1,
                                           !.sends = <<SendCall(dst, <<CMD_HOP>>, acc)>>]
              ELSE /\ NoSend(acc, dlv, st)
                   /\ cbq' = cq
                   /\ radio_quality' = q
                   /\ last' = step
                   /\ UNCHANGED <<rxq, hops>>


(* -------------------------- BasicReceiver ----------------------------- *)
\* uint8_t and int8_t results of int arithmetic
ToU8(x) == x % U8
ToI8(x) == ((x + 128) % U8) - 128

\* onReceived, not matched: is this the pairing broadcast
IsSearch(data) == Len(data) = 1 /\ data[1] = CMD_SEARCH

\* onReceived, matched: is this the hop command
IsHop(data) == Len(data) = 1 /\ data[1] = CMD_HOP

\* onReceived, matched: is this a data frame
IsData(data) == Len(data) >= 1 /\ data[1] = CMD_DATA

\* a payload that keeps the tag (not what the code does)
DataPayloadWithTag(data) == data

\* onReceived: onData(len - 1, data + 1)
DataPayload(data) == SubSeq(data, 2, Len(data))

\* a candidate that stops at the bounds instead of turning round (not what
\* the code does)
HopCandidateClamped(ch, dir) ==
    LET next == ch + dir
    IN  IF next > MAX_CHANNEL THEN MAX_CHANNEL
        ELSE IF next < MIN_CHANNEL THEN MIN_CHANNEL
        ELSE next

\* onReceived: new_channel = channel + channel_direction, turned round at
\* MAX_CHANNEL and at MIN_CHANNEL
HopCandidate(ch, dir) ==
    LET next == ToU8(ch + dir)
    IN  IF next > MAX_CHANNEL THEN MAX_CHANNEL - 1
        ELSE IF next < MIN_CHANNEL THEN MIN_CHANNEL + 1
        ELSE next

\* onSent: channel_direction = new_channel - channel
HopDirection(new, ch) == ToI8(new - ch)

\* a Receiver that takes any report of its reply for pairing (not what the
\* code does)
PairsOnAnyReport(status) == TRUE

\* onSent, not matched: does this report pair the Receiver
PairsOnReport(status) == status = 0

\* onSent, matched: does this report make the Receiver hop
HopsOnReport(status) == status = 0

\* BasicReceiver::onReceived(addr, data, len)
ReceiverOnReceived(key, acc, dlv, st) ==
    /\ up[Receiver]
    /\ rxq[Receiver] # <<>>
    /\ LET addr == Head(rxq[Receiver]).from
           data == Head(rxq[Receiver]).data
           rq == [rxq EXCEPT ![Receiver] = Tail(@)]
           step == [Step("onReceived", Receiver) EXCEPT !.data = data, !.from = addr]
       IN  /\ UNCHANGED <<pc, up, matched, loaded, blob, wifi_channel, radio_quality,
                          channel, channel_direction, n>>
           /\ IF ~matched[Receiver]
              THEN IF IsSearch(data)
                   THEN LET reply == <<RPL_SEARCH>> \o key
                        IN  /\ SendOutcome(cbq, rq, Receiver, addr, acc, dlv, st)
                            /\ peer' = [peer EXCEPT ![Receiver] = PeerRec(addr, key)]
                            /\ cbq' = CbqAfter(cbq, Receiver, addr, reply, acc, st)
                            /\ rxq' = RxqAfter(rq, Receiver, reply, dlv)
                            /\ last' = [step EXCEPT !.sends = <<SendCall(addr, reply, acc)>>]
                            /\ UNCHANGED <<new_channel, hops>>
                   ELSE /\ NoSend(acc, dlv, st)
                        /\ key = KeyBytes(1)
                        /\ rxq' = rq
                        /\ last' = step
                        /\ UNCHANGED <<peer, cbq, new_channel, hops>>
              ELSE IF IsHop(data)
              THEN LET cand == HopCandidate(channel, channel_direction)
                       reply == <<RPL_HOP, cand>>
                       dst == peer[Receiver].addr
                   IN  /\ key = KeyBytes(1)
                       /\ SendOutcome(cbq, rq, Receiver, dst, acc, dlv, st)
                       /\ new_channel' = cand
                       /\ cbq' = CbqAfter(cbq, Receiver, dst, reply, acc, st)
                       /\ rxq' = RxqAfter(rq, Receiver, reply, dlv)
                       /\ last' = [step EXCEPT !.sends = <<SendCall(dst, reply, acc)>>]
                       /\ hops' = [hops EXCEPT !.req = @ + 1, !.prev = channel, !.cand = cand]
                       /\ UNCHANGED peer
              ELSE /\ NoSend(acc, dlv, st)
                   /\ key = KeyBytes(1)
                   /\ rxq' = rq
                   /\ last' = IF IsData(data)
                              THEN [step EXCEPT !.on_data = <<DataPayload(data)>>]
                              ELSE step
                   /\ UNCHANGED <<peer, cbq, new_channel, hops>>

\* BasicReceiver::onSent(addr, status)
ReceiverOnSent(ok) ==
    /\ up[Receiver]
    /\ cbq[Receiver] # <<>>
    /\ LET report == Head(cbq[Receiver])
           step == [Step("onSent", Receiver) EXCEPT !.status = report.status,
                                                    !.acked = report.data]
       IN  /\ cbq' = [cbq EXCEPT ![Receiver] = Tail(@)]
           /\ UNCHANGED <<pc, up, peer, loaded, blob, radio_quality, new_channel, rxq,
                          n>>
           /\ hops' = IF IsHopReply(report.data)
                      THEN [hops EXCEPT !.ack = @ + 1] ELSE hops
           /\ IF ~matched[Receiver]
              THEN /\ ~ok
                   /\ matched' = [matched EXCEPT ![Receiver] = PairsOnReport(report.status)]
                   /\ last' = step
                   /\ UNCHANGED <<wifi_channel, channel, channel_direction>>
              ELSE /\ UNCHANGED matched
                   /\ IF HopsOnReport(report.status)
                      THEN /\ SetChannelOutcome(new_channel, ok)
                           /\ wifi_channel' = IF ok THEN [wifi_channel EXCEPT
                                                              ![Receiver] = new_channel]
                                              ELSE wifi_channel
                           /\ channel_direction' = IF ok THEN HopDirection(new_channel, channel)
                                                   ELSE channel_direction
                           /\ channel' = IF ok THEN new_channel ELSE channel
                           /\ last' = [step EXCEPT !.setch = <<SetCall(new_channel, ok)>>]
                      ELSE /\ ~ok
                           /\ last' = step
                           /\ UNCHANGED <<wifi_channel, channel, channel_direction>>

(* ------------------------------ reboot -------------------------------- *)
\* Endpoint e is power-cycled: its globals are zeroed again, its radio
\* forgets its queues, callbacks and channel; the flash keeps the blob, and
\* what e had put on the air for the other endpoint stays there.
Reboot(e) ==
    /\ pc[e] # "off"
    /\ n.boot < MaxBoots
    /\ n' = [n EXCEPT !.boot = @ + 1]
    /\ pc' = [pc EXCEPT ![e] = "off"]
    /\ up' = [up EXCEPT ![e] = FALSE]
    /\ matched' = [matched EXCEPT ![e] = FALSE]
    /\ peer' = [peer EXCEPT ![e] = PeerRec(ZeroMac, ZeroKey)]
    /\ loaded' = [loaded EXCEPT ![e] = FALSE]
    /\ wifi_channel' = [wifi_channel EXCEPT ![e] = 0]
    /\ radio_quality' = IF e = Sender THEN 0 ELSE radio_quality
    /\ channel' = IF e = Receiver THEN 0 ELSE channel
    /\ channel_direction' = IF e = Receiver THEN 0 ELSE channel_direction
    /\ new_channel' = IF e = Receiver THEN 0 ELSE new_channel
    /\ rxq' = [rxq EXCEPT ![e] = <<>>]
    /\ cbq' = [cbq EXCEPT ![e] = <<>>]
    /\ last' = Step("boot", e)
    /\ UNCHANGED <<blob, hops>>

(* ------------------------- the third station ------------------------- *)
\* A station that is neither endpoint puts a frame on the air for e, under
\* its own address or under the other endpoint's (a replayed frame): the
\* receive callback takes frames from any address.
Inject(e, from, data) ==
    /\ up[e]
    /\ n.air < MaxInject
    /\ Len(rxq[e]) < MaxRx
    /\ n' = [n EXCEPT !.air = @ + 1]
    /\ rxq' = [rxq EXCEPT ![e] = Append(@, [from |-> from, data |-> data])]
    /\ last' = [NoStep EXCEPT !.act = "air", !.who = e, !.data = data, !.from = from]
    /\ UNCHANGED <<pc, up, matched, peer, loaded, blob, wifi_channel, radio_quality,
                   channel, channel_direction, new_channel, cbq, hops>>

(* --------------------------- specifications --------------------------- *)
\* Two endpoints from power-on through discovery, over a lossy link, with
\* flash and radio start-up working and nobody else on the air.
Next ==
    \/ \E e \in Endpoints : Begin(e, "none")
    \/ \E acc, dlv \in BOOLEAN, st \in {0, 1} : SenderSearch(acc, dlv, st)
    \/ \E e \in Endpoints : SearchDone(e, "none", SizeofPeer)
    \/ \E ok \in BOOLEAN : SenderOnReceived(ok)
    \/ \E acc, dlv \in BOOLEAN, st \in {0, 1} : SenderOnSent(acc, dlv, st)
    \/ \E key \in Keys, acc, dlv \in BOOLEAN, st \in {0, 1} :
           ReceiverOnReceived(key, acc, dlv, st)
    \/ \E ok \in BOOLEAN : ReceiverOnSent(ok)

Spec == Init /\ [][Next]_vars

\* radio_quality after k failed acks in a row from 1.0
RECURSIVE Decay(_)
Decay(k) == IF k = 0 THEN Q_ONE ELSE QualityUpdate(Decay(k - 1), 1)

\* the lowest radio_quality that has not yet triggered a hop
QLow == Decay(CHOOSE k \in 0..100 : ~HopTriggered(Decay(k)) /\ HopTriggered(Decay(k + 1)))

\* the Receiver's channel state as begin() leaves it, and after one more hop
\* that went through
FirstHop == [channel |-> INIT_CHANNEL, direction |-> 1, new_channel |-> 0]

OneHop(was) ==
    LET new == HopCandidate(was.channel, was.direction)
    IN  [channel |-> new, direction |-> HopDirection(new, was.channel), new_channel |-> new]

\* the channel states at most k such hops lead to from those of set
RECURSIVE HopWalk(_, _)
HopWalk(set, k) ==
    IF k = 0 THEN set ELSE HopWalk(set \cup {OneHop(was) : was \in set}, k - 1)

\* The states begin() and a run of traffic leave, queues empty: both
\* endpoints up; those of paired in loop() and paired with each other (key
\* 1), the others in their discovery loop; radio_quality in quals; the
\* Receiver's channel state one of walk, and both radios on its channel.
InitRun(paired, quals, walk) ==
    /\ pc = [e \in Endpoints |-> IF e \in paired THEN "run" ELSE "search"]
    /\ up = [e \in Endpoints |-> TRUE]
    /\ matched = [e \in Endpoints |-> e \in paired]
    /\ peer = [e \in Endpoints |-> IF e \in paired
                                   THEN PeerRec(MacOf(Other(e)), KeyBytes(1))
                                   ELSE PeerRec(ZeroMac, ZeroKey)]
    /\ loaded = [e \in Endpoints |-> e \in paired]
    /\ blob = [e \in Endpoints |-> IF e \in paired THEN PairedBlob(e, KeyBytes(1))
                                   ELSE NoBlob]
    /\ radio_quality \in quals
    /\ \E at \in walk :
          /\ channel = at.channel
          /\ channel_direction = at.direction
          /\ new_channel = at.new_channel
          /\ wifi_channel = [e \in Endpoints |-> at.channel]
    /\ rxq = [e \in Endpoints |-> <<>>]
    /\ cbq = [e \in Endpoints |-> <<>>]
    /\ n = NoCalls
    /\ hops = NoHops
    /\ last = NoStep

\* the hops that take the Receiver over all channels and back
HopCycle == 2 * (MAX_CHANNEL - MIN_CHANNEL)

\* what loop() of rc-bridge.ino sends
LoopLens == {HELLO_LEN}

\* The paired link alone: loop() sending its data over a link that loses
\* frames until radio_quality asks for a hop, and the hop exchange.
InitHop == InitRun(Endpoints, {Q_ONE, QLow}, HopWalk({FirstHop}, HopCycle))

NextHop ==
    \/ \E len \in LoopLens, acc, dlv \in BOOLEAN, st \in {0, 1} :
           Send(len, Payload(len, 1), acc, dlv, st)
    \/ \E ok \in BOOLEAN : SenderOnReceived(ok)
    \/ \E acc, dlv \in BOOLEAN, st \in {0, 1} : SenderOnSent(acc, dlv, st)
    \/ \E key \in Keys, acc, dlv \in BOOLEAN, st \in {0, 1} :
           ReceiverOnReceived(key, acc, dlv, st)
    \/ \E ok \in BOOLEAN : ReceiverOnSent(ok)

SpecHop == InitHop /\ [][NextHop]_vars

\* The same link with radio_quality anywhere on its way down: the values a
\* run of failed reports leaves while the radio rejects the hop commands.
InitQuality == InitRun(Endpoints, {Decay(k) : k \in 0..MaxDecay}, {FirstHop})

SpecQuality == InitQuality /\ [][NextHop]_vars

\* The Receiver with a third station on the air: paired or still in its
\* discovery loop, anywhere on its walk over the channels.
InitAir ==
    \/ InitRun(Endpoints, {Q_ONE}, HopWalk({FirstHop}, HopCycle))
    \/ InitRun({Sender}, {Q_ONE}, {FirstHop})

\* the frames the third station sends the Receiver
AirFrames ==
    {<<CMD_SEARCH>>, <<CMD_HOP>>, <<CMD_DATA>>, <<CMD_DATA, 1, 2>>,
     <<RPL_HOP, 9>>, <<RPL_SEARCH>> \o KeyBytes(2)}

NextAir ==
    \/ \E from \in {MacX, MacOf(Sender)}, data \in AirFrames :
           Inject(Receiver, from, data)
    \/ \E ok \in BOOLEAN : SenderOnReceived(ok)
    \/ \E key \in Keys, acc, dlv \in BOOLEAN, st \in {0, 1} :
           ReceiverOnReceived(key, acc, dlv, st)
    \/ \E ok \in BOOLEAN : ReceiverOnSent(ok)

SpecAir == InitAir /\ [][NextAir]_vars

\* send() with the sizes around its limit: on a paired link, on a Sender
\* whose discovery has not paired it, and to a Receiver that is not paired
SendLens == {0, 1, 2, HELLO_LEN, MAX_PAYLOAD - 1, MAX_PAYLOAD, MAX_PAYLOAD + 1, U8 - 1}

InitSend ==
    \/ InitRun(Endpoints, {Q_ONE}, {FirstHop})
    \/ InitRun({Receiver}, {Q_ONE}, {FirstHop})
    \/ InitRun({Sender}, {Q_ONE}, {FirstHop})

NextSend ==
    \/ \E acc, dlv \in BOOLEAN, st \in {0, 1} : SenderSearch(acc, dlv, st)
    \/ \E len \in SendLens, which \in {1, 2}, acc, dlv \in BOOLEAN, st \in {0, 1} :
           Send(len, Payload(len, which), acc, dlv, st)
    \/ \E acc, dlv \in BOOLEAN, st \in {0, 1} : SenderOnSent(acc, dlv, st)
    \/ \E key \in Keys, acc, dlv \in BOOLEAN, st \in {0, 1} :
           ReceiverOnReceived(key, acc, dlv, st)

SpecSend == InitSend /\ [][NextSend]_vars

\* how much of the blob a failing write leaves
ShortWrites == {0, SizeofPeer - 1}

\* Two endpoints from power-on with everything start-up can meet: each
\* substrate call of begin() failing, the write of the blob failing or coming
\* up short, a power cycle, and loop() running whatever begin() returned.
NextBoot ==
    \/ \E e \in Endpoints, fault \in BeginFaults : Begin(e, fault)
    \/ \E acc, dlv \in BOOLEAN, st \in {0, 1} : FirstSearch(acc, dlv, st)
    \/ \E e \in Endpoints, fault \in SaveFaults, nwrite \in ShortWrites \cup {SizeofPeer} :
           SearchDone(e, fault, nwrite)
    \/ \E e \in Endpoints : Reboot(e)
    \/ \E len \in LoopLens, acc, dlv \in BOOLEAN, st \in {0, 1} :
           Send(len, Payload(len, 1), acc, dlv, st)
    \/ \E ok \in BOOLEAN : SenderOnReceived(ok)
    \/ \E acc, dlv \in BOOLEAN, st \in {0, 1} : SenderOnSent(acc, dlv, st)
    \/ \E key \in Keys, acc, dlv \in BOOLEAN, st \in {0, 1} :
           ReceiverOnReceived(key, acc, dlv, st)
    \/ \E ok \in BOOLEAN : ReceiverOnSent(ok)

SpecBoot == Init /\ [][NextBoot]_vars

\* The link from the discovery loops on, or already paired, with
\* everything its two endpoints do: a discovery broadcast, loop() sending
\* data, the web handler calling reset(), both callbacks on both endpoints,
\* the radio rejecting and losing frames.
InitLink ==
    \/ InitRun(Endpoints, {Q_ONE, QLow}, {FirstHop})
    \/ InitRun({}, {Q_ONE}, {FirstHop})

NextLink ==
    \/ \E e \in Endpoints, removed \in BOOLEAN : Reset(e, removed)
    \/ \E acc, dlv \in BOOLEAN, st \in {0, 1} : FirstSearch(acc, dlv, st)
    \/ \E e \in Endpoints : SearchDone(e, "none", SizeofPeer)
    \/ \E len \in LoopLens, acc, dlv \in BOOLEAN, st \in {0, 1} :
           Send(len, Payload(len, 1), acc, dlv, st)
    \/ \E ok \in BOOLEAN : SenderOnReceived(ok)
    \/ \E acc, dlv \in BOOLEAN, st \in {0, 1} : SenderOnSent(acc, dlv, st)
    \/ \E acc, dlv \in BOOLEAN, st \in {0, 1} :
           ReceiverOnReceived(KeyBytes(1), acc, dlv, st)
    \/ \E ok \in BOOLEAN : ReceiverOnSent(ok)

SpecLink == InitLink /\ [][NextLink]_vars

\* A paired link that has gone dead: from radio_quality 1.0 loop() keeps
\* sending, no frame reaches the Receiver, every report is a failure, and
\* the radio accepts every frame handed to it (loop() sends when the radio
\* has room).
InitDecay == InitRun(Endpoints, {Q_ONE}, {FirstHop})

DecaySend ==
    /\ n.send < MaxDecay
    /\ \E len \in LoopLens : SendCalled(len, Payload(len, 1), TRUE, FALSE, 1)

DecayOnSent ==
    /\ \E acc \in BOOLEAN : SenderOnSent(acc, FALSE, 1)
    /\ \A i \in 1..Len(last'.sends) : last'.sends[i].ok

NextDecay == DecaySend \/ DecayOnSent

SpecDecay == InitDecay /\ [][NextDecay]_vars

\* The link with a third station that sends both endpoints the pairing
\* frames, under its own address or the other endpoint's: from the discovery
\* loops or already paired, with reset() and both callbacks on both ends.
InitPeer ==
    \/ InitRun(Endpoints, {Q_ONE}, {FirstHop})
    \/ InitRun({}, {Q_ONE}, {FirstHop})

\* the pairing frames the third station sends
PeerFrames == {<<CMD_SEARCH>>, <<RPL_SEARCH>> \o KeyBytes(2)}

PeerInject(e, from, data) ==
    /\ n.air < MaxPeerFrames
    /\ Inject(e, from, data)

NextPeer ==
    \/ \E e \in Endpoints : \E from \in {MacX, MacOf(Other(e))}, data \in PeerFrames :
           PeerInject(e, from, data)
    \/ \E e \in Endpoints, removed \in BOOLEAN : Reset(e, removed)
    \/ \E acc, dlv \in BOOLEAN, st \in {0, 1} : FirstSearch(acc, dlv, st)
    \/ \E e \in Endpoints : SearchDone(e, "none", SizeofPeer)
    \/ \E ok \in BOOLEAN : SenderOnReceived(ok)
    \/ \E acc, dlv \in BOOLEAN, st \in {0, 1} : SenderOnSent(acc, dlv, st)
    \/ \E acc, dlv \in BOOLEAN, st \in {0, 1} :
           ReceiverOnReceived(KeyBytes(1), acc, dlv, st)
    \/ \E ok \in BOOLEAN : ReceiverOnSent(ok)

SpecPeer == InitPeer /\ [][NextPeer]_vars

\* The paired link with a third station that sends the Sender hop replies,
\* under its own address or the Receiver's, next to the link's own traffic.
InitReply == InitRun(Endpoints, {Q_ONE, QLow}, {FirstHop})

\* the channel bytes of those replies: around both bounds and the largest
ReplyChannels == {0, MIN_CHANNEL, MAX_CHANNEL, MAX_CHANNEL + 1, U8 - 1}

NextReply ==
    \/ \E from \in {MacX, MacOf(Receiver)}, c \in ReplyChannels :
           PeerInject(Sender, from, <<RPL_HOP, c>>)
    \/ NextHop

SpecReply == InitReply /\ [][NextReply]_vars

\* Power-on after a one-sided reset: the Sender's blob is gone (reset() and
\* a reboot), the Receiver still holds the blob of their pairing.
InitOneSided ==
    /\ Init
    /\ blob = [e \in Endpoints |-> IF e = Receiver THEN PairedBlob(e, KeyBytes(1))
                                   ELSE NoBlob]

SpecOneSided == InitOneSided /\ [][NextBoot]_vars

(* ------------------- the SBUS variant, rc-bridge.hpp ------------------- *)
\* Sender and Receiver of rc-bridge.hpp keep only the peer's address (no
\* key) and the Receiver keeps its channel state in a ChannelGenerator, here
\* channel and channel_direction; new_channel is not used.

\* ChannelGenerator::next: int8_t new_channel = channel + direction, turned
\* round at MAX_CHANNEL and at MIN_CHANNEL
GeneratorNext(ch, dir) ==
    LET next == ToI8(ch + dir)
    IN  IF next > MAX_CHANNEL THEN MAX_CHANNEL - 1
        ELSE IF next < MIN_CHANNEL THEN MIN_CHANNEL + 1
        ELSE next

\* Sender::searchForPeer, one pass of its loop: the same broadcast
SbusSenderSearch(acc, dlv, st) == SenderSearch(acc, dlv, st)

\* the rest of RCBridgeBase::begin once searchForPeer() has seen matched:
\* the 6 bytes of peer_addr written to the file, the peer registered
SbusSearchDone(e) ==
    /\ pc[e] = "search"
    /\ matched[e]
    /\ blob' = [blob EXCEPT ![e] = Blob(peer[e].addr)]
    /\ pc' = [pc EXCEPT ![e] = "run"]
    /\ last' = [Step("begin", e) EXCEPT !.ret = "true", !.added = <<peer[e]>>]
    /\ UNCHANGED <<up, matched, peer, loaded, wifi_channel, radio_quality, channel,
                   channel_direction, new_channel, rxq, cbq, n, hops>>

\* Sender::onReceived, not matched: is this a search reply, {RPL_SEARCH}
IsSbusSearchReply(data) == Len(data) = 1 /\ data[1] = RPL_SEARCH

\* Sender::onReceived(addr, data, len)
SbusSenderOnReceived(ok) ==
    /\ up[Sender]
    /\ rxq[Sender] # <<>>
    /\ LET addr == Head(rxq[Sender]).from
           data == Head(rxq[Sender]).data
           step == [Step("onReceived", Sender) EXCEPT !.data = data, !.from = addr]
       IN  /\ rxq' = [rxq EXCEPT ![Sender] = Tail(@)]
           /\ UNCHANGED <<pc, up, loaded, blob, radio_quality, channel, channel_direction,
                          new_channel, cbq, n>>
           /\ hops' = IF matched[Sender] /\ IsHopReply(data)
                      THEN [hops EXCEPT !.rx = @ + 1] ELSE hops
           /\ IF ~matched[Sender]
              THEN /\ ~ok
                   /\ IF IsSbusSearchReply(data)
                      THEN /\ peer' = [peer EXCEPT ![Sender].addr = addr]
                           /\ matched' = [matched EXCEPT ![Sender] = TRUE]
                      ELSE UNCHANGED <<peer, matched>>
                   /\ last' = step
                   /\ UNCHANGED wifi_channel
              ELSE /\ UNCHANGED <<peer, matched>>
                   /\ IF IsHopReply(data)
                      THEN /\ SetChannelOutcome(data[2], ok)
                           /\ wifi_channel' = IF ok THEN [wifi_channel EXCEPT ![Sender] = data[2]]
                                              ELSE wifi_channel
                           /\ last' = [step EXCEPT !.setch = <<SetCall(data[2], ok)>>]
                      ELSE /\ ~ok
                           /\ last' = step
                           /\ UNCHANGED wifi_channel

\* Sender::onSent(addr, status): the estimator and the hop command of
\* BasicSender::onSent
SbusSenderOnSent(acc, dlv, st) == SenderOnSent(acc, dlv, st)

\* Receiver::onReceived(addr, data, len); an SBUS frame goes to the
\* application's onSbusFrame and changes nothing here
SbusReceiverOnReceived(acc, dlv, st) ==
    /\ up[Receiver]
    /\ rxq[Receiver] # <<>>
    /\ LET addr == Head(rxq[Receiver]).from
           data == Head(rxq[Receiver]).data
           rq == [rxq EXCEPT ![Receiver] = Tail(@)]
           step == [Step("onReceived", Receiver) EXCEPT !.data = data, !.from = addr]
       IN  /\ UNCHANGED <<pc, up, loaded, blob, wifi_channel, radio_quality,
                          channel, channel_direction, new_channel, n>>
           /\ IF ~matched[Receiver] /\ IsSearch(data)
              THEN LET reply == <<RPL_SEARCH>>
                   IN  /\ SendOutcome(cbq, rq, Receiver, addr, acc, dlv, st)
                       /\ cbq' = CbqAfter(cbq, Receiver, addr, reply, acc, st)
                       /\ rxq' = RxqAfter(rq, Receiver, reply, dlv)
                       /\ peer' = IF acc THEN [peer EXCEPT ![Receiver].addr = addr] ELSE peer
                       /\ matched' = IF acc THEN [matched EXCEPT ![Receiver] = TRUE]
                                     ELSE matched
                       /\ last' = [step EXCEPT !.sends = <<SendCall(addr, reply, acc)>>]
                       /\ UNCHANGED hops
              ELSE IF matched[Receiver] /\ IsHop(data)
              THEN LET cand == GeneratorNext(channel, channel_direction)
                       reply == <<RPL_HOP, ToU8(cand)>>
                       dst == peer[Receiver].addr
                   IN  /\ SendOutcome(cbq, rq, Receiver, dst, acc, dlv, st)
                       /\ cbq' = CbqAfter(cbq, Receiver, dst, reply, acc, st)
                       /\ rxq' = RxqAfter(rq, Receiver, reply, dlv)
                       /\ last' = [step EXCEPT !.sends = <<SendCall(dst, reply, acc)>>]
                       /\ hops' = [hops EXCEPT !.req = @ + 1, !.prev = channel, !.cand = cand]
                       /\ UNCHANGED <<peer, matched>>
              ELSE /\ NoSend(acc, dlv, st)
                   /\ rxq' = rq
                   /\ last' = step
                   /\ UNCHANGED <<peer, matched, cbq, hops>>

\* Receiver::onSent(addr, status): when matched, every successful report
\* takes the generator's next channel
SbusReceiverOnSent(ok) ==
    /\ up[Receiver]
    /\ cbq[Receiver] # <<>>
    /\ LET report == Head(cbq[Receiver])
           next == GeneratorNext(channel, channel_direction)
           step == [Step("onSent", Receiver) EXCEPT !.status = report.status,
                                                    !.acked = report.data]
       IN  /\ cbq' = [cbq EXCEPT ![Receiver] = Tail(@)]
           /\ UNCHANGED <<pc, up, matched, peer, loaded, blob, radio_quality, new_channel,
                          rxq, n>>
           /\ hops' = IF IsHopReply(report.data)
                      THEN [hops EXCEPT !.ack = @ + 1] ELSE hops
           /\ IF matched[Receiver] /\ report.status = 0
              THEN /\ SetChannelOutcome(ToU8(next), ok)
                   /\ wifi_channel' = IF ok THEN [wifi_channel EXCEPT ![Receiver] = ToU8(next)]
                                      ELSE wifi_channel
                   /\ channel_direction' = IF ok THEN ToI8(next - channel)
                                           ELSE channel_direction
                   /\ channel' = IF ok THEN next ELSE channel
                   /\ last' = [step EXCEPT !.setch = <<SetCall(ToU8(next), ok)>>]
              ELSE /\ ~ok
                   /\ last' = step
                   /\ UNCHANGED <<wifi_channel, channel, channel_direction>>

\* The SBUS variant from its two discovery loops (begin() has set the
\* radios to INIT_CHANNEL and the generator to INIT_CHANNEL, +1), over a
\* lossy link, with a third station that may send the Receiver a CMD_HOP.
InitSbus == InitRun({}, {Q_ONE}, {FirstHop})

NextSbus ==
    \/ \E acc, dlv \in BOOLEAN, st \in {0, 1} : SbusSenderSearch(acc, dlv, st)
    \/ \E e \in Endpoints : SbusSearchDone(e)
    \/ \E from \in {MacX, MacOf(Sender)} : PeerInject(Receiver, from, <<CMD_HOP>>)
    \/ \E ok \in BOOLEAN : SbusSenderOnReceived(ok)
    \/ \E acc, dlv \in BOOLEAN, st \in {0, 1} : SbusSenderOnSent(acc, dlv, st)
    \/ \E acc, dlv \in BOOLEAN, st \in {0, 1} : SbusReceiverOnReceived(acc, dlv, st)
    \/ \E ok \in BOOLEAN : SbusReceiverOnSent(ok)

SpecSbus == InitSbus /\ [][NextSbus]_vars

(* ------------------------------ claims -------------------------------- *)
\* an endpoint is Paired, and came to it by discovery in this boot
ColdPaired(e) == matched[e] /\ ~loaded[e]

\* C1: when both endpoints have paired by discovery, the Sender's peer.key
\* equals the Receiver's peer.key, the Sender's peer.addr is the Receiver's
\* MAC and the Receiver's peer.addr is the Sender's MAC.
C1_ColdPairKeyAgreement ==
    (ColdPaired(Sender) /\ ColdPaired(Receiver)) =>
        /\ peer[Sender].key = peer[Receiver].key
        /\ peer[Sender].addr = MacOf(Receiver)
        /\ peer[Receiver].addr = MacOf(Sender)

\* C2: once an endpoint is Paired no step (upcall, send(), radio error,
\* reset()) returns it to Unpaired; a reset() leaves matched and peer of both
\* endpoints as they were, and when it returns true the blob is gone.
C2_PairingMonotonic ==
    [][/\ \A e \in Endpoints : matched[e] => matched'[e]
       /\ n'.reset # n.reset =>
              /\ matched' = matched
              /\ peer' = peer
              /\ last'.ret = "true" => ~blob'[last'.who].exists]_vars

\* an endpoint that paired by discovery, finished begin() and wrote its
\* blob, and whose reset() has just removed it
C2_Witness ==
    /\ last.act = "reset"
    /\ ~loaded[last.who]
    /\ pc[last.who] = "run"
    /\ last.ret = "true"
    /\ last.was_matched
    /\ matched[last.who]
    /\ peer[last.who].addr = MacOf(Other(last.who))
    /\ ~blob[last.who].exists

\* C3: the Receiver goes from Unpaired to Paired by discovery only in its
\* on_sent upcall that reports status 0 for a SEARCH_REPLY; an on_sent upcall
\* that reports failure leaves it Unpaired; and handling a SEARCH while
\* Unpaired leaves it Unpaired and hands the send primitive one SEARCH_REPLY
\* to the searcher, carrying the 16-byte key generated in that upcall.
C3_ReceiverPairsOnAck ==
    [][/\ (~matched[Receiver] /\ matched'[Receiver] /\ ~loaded'[Receiver]) =>
              /\ last'.act = "onSent" /\ last'.who = Receiver
              /\ last'.status = 0
              /\ IsSearchReply(last'.acked)
       /\ (last'.act = "onSent" /\ last'.who = Receiver /\ ~matched[Receiver]
             /\ last'.status # 0) =>
              ~matched'[Receiver]
       /\ (last'.act = "onReceived" /\ last'.who = Receiver /\ ~matched[Receiver]
             /\ last'.data = <<CMD_SEARCH>>) =>
              /\ ~matched'[Receiver]
              /\ Len(last'.sends) = 1
              /\ last'.sends[1].dst = last'.from
              /\ last'.sends[1].data = <<RPL_SEARCH>> \o peer'[Receiver].key
              /\ Len(peer'[Receiver].key) = KEY_LEN
              /\ peer'[Receiver].key \in Keys]_vars

\* the Receiver has answered two SEARCH broadcasts and the report of a
\* SEARCH_REPLY has just paired it
C3_Witness ==
    /\ last.act = "onSent" /\ last.who = Receiver
    /\ last.status = 0
    /\ ~last.was_matched
    /\ matched[Receiver]
    /\ IsSearchReply(last.acked)
    /\ n.search = MaxSearch
    /\ peer[Receiver].key # SubSeq(last.acked, 2, 1 + KEY_LEN)

\* one hop exchange has been processed on both sides: the Receiver answered
\* one HOP_REQUEST, the Sender handled the HOP_REPLY and the Receiver handled
\* the report of the HOP_REPLY
OneHopExchanged == hops.req = 1 /\ hops.rx = 1 /\ hops.ack = 1

\* C4: after a hop exchange has been processed on both sides, the channels
\* are (Sender = candidate, Receiver = candidate) or (Sender = candidate,
\* Receiver = its previous current).
C4_HopExchangeOutcome ==
    OneHopExchanged =>
        /\ wifi_channel[Sender] = hops.cand
        /\ wifi_channel[Receiver] \in {hops.cand, hops.prev}

\* C5: in every state of the Receiver its current channel is in
\* MIN_CHANNEL..MAX_CHANNEL and its direction is +1 or -1.
C5_ChannelState ==
    /\ channel \in MIN_CHANNEL..MAX_CHANNEL
    /\ channel_direction \in {1, -1}

\* C6: the candidate the Receiver computes on a HOP_REQUEST, which is the
\* channel it places in the HOP_REPLY, lies in MIN_CHANNEL..MAX_CHANNEL and
\* differs from the Receiver's current channel.
C6_CandidateChannel ==
    (last.act = "onReceived" /\ last.who = Receiver /\ last.was_matched
       /\ last.data = <<CMD_HOP>>) =>
        /\ last.sends[1].data = <<RPL_HOP, new_channel>>
        /\ new_channel \in MIN_CHANNEL..MAX_CHANNEL
        /\ new_channel # channel

\* the last step was an upcall (or call) act of the Receiver
ReceiverDid(step, act) == step.act = act /\ step.who = Receiver

\* C7: handling a received frame, a HOP_REQUEST and the sending of its
\* HOP_REPLY included, leaves the Receiver's radio channel and channel state
\* alone; every wifi_set_channel call of the Receiver after begin() is made in
\* an on_sent upcall that reports status 0 for a HOP_REPLY, with the channel
\* that HOP_REPLY carried; an on_sent upcall for any other frame, or one that
\* reports failure, changes no channel.
C7_HopOrdering ==
    [][/\ ReceiverDid(last', "onReceived") =>
              /\ last'.setch = <<>>
              /\ wifi_channel'[Receiver] = wifi_channel[Receiver]
              /\ channel' = channel
              /\ channel_direction' = channel_direction
       /\ (last'.who = Receiver /\ last'.act # "begin" /\ last'.setch # <<>>) =>
              /\ last'.act = "onSent"
              /\ last'.status = 0
              /\ IsHopReply(last'.acked)
              /\ last'.setch[1].channel = last'.acked[2]
       /\ (ReceiverDid(last', "onSent")
             /\ ~(last'.status = 0 /\ IsHopReply(last'.acked))) =>
              /\ wifi_channel'[Receiver] = wifi_channel[Receiver]
              /\ channel' = channel
              /\ channel_direction' = channel_direction]_vars

\* C8: send(len, data) is rejected, handing nothing to the radio, exactly
\* when len > 249 or len = 0.
C8_PayloadTooLarge ==
    last.act = "send" =>
        ((last.sends = <<>> /\ last.ret = "false")
            <=> (Len(last.data) > MAX_PAYLOAD \/ Len(last.data) = 0))

FitsTag(tag, len) ==
    \/ tag = CMD_SEARCH /\ len = 1
    \/ tag = RPL_SEARCH /\ len = 1 + KEY_LEN
    \/ tag = CMD_HOP /\ len = 1
    \/ tag = RPL_HOP /\ len = 2
    \/ tag = CMD_DATA /\ len \in 2..MAX_FRAME

\* a frame of no kind: empty, or its tag and length fit no frame kind
Malformed(data) == Len(data) = 0 \/ ~FitsTag(data[1], Len(data))

\* C11: an onReceived upcall, of either role in either pairing state, for a
\* malformed frame changes no pairing state, peer record, channel state or
\* quality, hands no frame to the radio, sets no channel and makes no on_data
\* upcall.
C11_MalformedDropped ==
    [][(last'.act = "onReceived" /\ Malformed(last'.data)) =>
           /\ matched' = matched
           /\ peer' = peer
           /\ wifi_channel' = wifi_channel
           /\ channel' = channel
           /\ channel_direction' = channel_direction
           /\ new_channel' = new_channel
           /\ radio_quality' = radio_quality
           /\ last'.sends = <<>>
           /\ last'.setch = <<>>
           /\ last'.on_data = <<>>]_vars

\* C12: the Sender's radio_quality is at least 0 and at most 1.0.
C12_QualityInRange == radio_quality >= 0 /\ radio_quality <= Q_ONE

\* a successful report has just been averaged into a radio_quality of 1.0,
\* without a hop command, and radio_quality is 1.0
C12_Witness ==
    /\ last.act = "onSent" /\ last.who = Sender
    /\ last.was_matched
    /\ last.status = 0
    /\ last.hooks = 0
    /\ radio_quality = Q_ONE

\* the blob holds the 22 bytes of a peer record
WellFormed(b) == b.exists /\ Len(b.bytes) = SizeofPeer

\* C13: a begin() that finds a well-formed blob, with the substrate working,
\* loads the peer from the blob byte for byte, registers that peer (address
\* and key) with the radio, returns true Paired, and sends nothing; an
\* endpoint that loaded its peer is never in the discovery procedure, and no
\* SEARCH is broadcast by a Sender that loaded its peer.
C13_WarmBoot ==
    [][/\ \A e \in Endpoints :
              (Begin(e, "none") /\ WellFormed(blob[e])) =>
                  /\ last'.ret = "true"
                  /\ matched'[e] /\ loaded'[e]
                  /\ pc'[e] = "run"
                  /\ PeerBytes(peer'[e]) = blob[e].bytes
                  /\ last'.added = <<peer'[e]>>
                  /\ last'.sends = <<>>
       /\ \A e \in Endpoints : loaded'[e] => pc'[e] # "search"
       /\ last'.act = "search" => ~loaded[Sender]]_vars

\* a Sender that paired by discovery with key 2, wrote its blob and was
\* power-cycled has booted again from the blob
C13_Witness ==
    /\ last.act = "begin" /\ last.who = Sender
    /\ last.ret = "true"
    /\ n.boot > 0
    /\ loaded[Sender] /\ matched[Sender]
    /\ peer[Sender] = PeerRec(MacOf(Receiver), KeyBytes(2))
    /\ n.search = 1

\* C14: a begin() that finds no blob, or a blob that does not yield 22 bytes,
\* goes into the role's discovery procedure (the substrate working); and a
\* short write of the blob after discovery makes begin() return false.
C14_DiscoveryOnBadBlob ==
    [][/\ \A e \in Endpoints :
              (Begin(e, "none") /\ ~WellFormed(blob[e])) => pc'[e] = "search"
       /\ \A e \in Endpoints, nwrite \in ShortWrites :
              SearchDone(e, "write", nwrite) => last'.ret = "false"]_vars

\* C15: once begin() has failed on an endpoint, that endpoint makes no
\* further call of the send primitive: no step it takes after the failing
\* begin() (a send() from loop(), a callback) hands a frame to the radio.
C15_FailedBeginHalts ==
    (last.who \in Endpoints /\ pc[last.who] = "failed"
       /\ last.act \notin {"begin", "search", "boot"}) =>
        last.sends = <<>>

\* C16: a begin() that pairs by discovery and returns true leaves a blob of
\* 22 bytes, the peer's address then its key; nothing but such a write and
\* reset() changes a blob; and a begin() that loads a well-formed blob has
\* for peer the record of those bytes, address from the first 6 and key from
\* the last 16. So the record loaded on a later boot is the record written.
C16_PersistenceRoundTrip ==
    [][/\ \A e \in Endpoints :
              SearchDone(e, "none", SizeofPeer) =>
                  /\ blob'[e].exists
                  /\ Len(blob'[e].bytes) = ADDR_LEN + KEY_LEN
                  /\ blob'[e].bytes = peer[e].addr \o peer[e].key
                  /\ peer'[e] = peer[e]
       /\ \A e \in Endpoints :
              blob'[e] # blob[e] =>
                  /\ last'.who = e
                  /\ \/ last'.act = "reset"
                     \/ last'.act = "begin" /\ pc[e] = "search"
       /\ \A e \in Endpoints :
              (Begin(e, "none") /\ WellFormed(blob[e])) =>
                  /\ peer'[e].addr = SubSeq(blob[e].bytes, 1, ADDR_LEN)
                  /\ peer'[e].key = SubSeq(blob[e].bytes, ADDR_LEN + 1, ADDR_LEN + KEY_LEN)
                  /\ blob'[e] = blob[e]]_vars

\* the Receiver paired by discovery with key 2, wrote its blob, was
\* power-cycled, and has loaded from the blob the record it wrote
C16_Witness ==
    /\ last.act = "begin" /\ last.who = Receiver
    /\ last.ret = "true"
    /\ n.boot > 0
    /\ loaded[Receiver]
    /\ peer[Receiver] = PeerRec(MacOf(Sender), KeyBytes(2))
    /\ blob[Receiver].bytes = MacOf(Sender) \o KeyBytes(2)

\* a reset() of e that directly follows a reset() of e
SecondReset(e) ==
    /\ last.act = "reset" /\ last.who = e
    /\ last'.act = "reset" /\ last'.who = e

\* the blob store and the endpoints' state are what they were
ResetChangesNothing ==
    UNCHANGED <<pc, up, matched, peer, loaded, blob, wifi_channel, radio_quality,
                channel, channel_direction, new_channel, rxq, cbq, hops>>

\* C17 as stated: whatever the first reset() did, a second reset() changes
\* neither the blob store nor the endpoint's state and returns success.
C17_ResetTwiceAsOnce ==
    [][\A e \in Endpoints :
           SecondReset(e) => (ResetChangesNothing /\ last'.ret = "true")]_vars

\* C17: when a reset() has returned success, a second reset() changes
\* neither the blob store nor the endpoint's state and returns success;
\* and a reset() of an endpoint without a blob, Paired or not, does so too.
C17_ResetIdempotentAfterSuccess ==
    [][\A e \in Endpoints :
           /\ (SecondReset(e) /\ last.ret = "true") =>
                  (ResetChangesNothing /\ last'.ret = "true")
           /\ (last'.act = "reset" /\ last'.who = e /\ ~blob[e].exists) =>
                  (ResetChangesNothing /\ last'.ret = "true")]_vars

\* a Paired Sender whose blob the first reset() removed has been reset again
C17_Witness ==
    /\ last.act = "reset" /\ last.who = Sender /\ last.ret = "true"
    /\ n.reset = 2
    /\ matched[Sender]
    /\ ~blob[Sender].exists
    /\ blob[Receiver].exists

\* C18: in the Sender's onSent while matched, when the updated quality is
\* below the threshold the hook runs once and one 1-byte HOP_REQUEST for
\* peer.addr is handed to esp_now_send, and radio_quality becomes 1.0 when
\* that call was accepted and stays at the updated value, below the
\* threshold, when it was rejected; when the updated quality is not below the
\* threshold there is no hook, no send, and the updated value is stored.
C18_HopTriggerAndReset ==
    [][(last'.act = "onSent" /\ last'.who = Sender /\ matched[Sender]) =>
           LET q == (radio_quality * Q_CW
                       + (IF last'.status = 0 THEN Q_ONE ELSE 0)) \div Q_SCALE
           IN  IF q < Q_THRESHOLD
               THEN /\ last'.hooks = 1
                    /\ Len(last'.sends) = 1
                    /\ last'.sends[1].data = <<CMD_HOP>>
                    /\ last'.sends[1].dst = peer[Sender].addr
                    /\ (radio_quality' = Q_ONE) <=> last'.sends[1].ok
                    /\ ~last'.sends[1].ok =>
                           (radio_quality' = q /\ radio_quality' < Q_THRESHOLD)
               ELSE /\ last'.hooks = 0
                    /\ last'.sends = <<>>
                    /\ radio_quality' = q]_vars

\* an onSent of the matched Sender found the quality below the threshold,
\* the radio rejected its HOP_REQUEST, and the quality stayed low
C18_Witness ==
    /\ last.act = "onSent" /\ last.who = Sender
    /\ matched[Sender]
    /\ last.hooks = 1
    /\ Len(last.sends) = 1 /\ ~last.sends[1].ok
    /\ radio_quality < Q_THRESHOLD

\* the reports the Sender's onSent has handled, on a link where every frame
\* handed to esp_now_send was accepted: one report per frame, less those
\* still waiting
ReportsHandled == n.send + hops.cmd - Len(cbq[Sender])

\* the number of failed reports after which the quality, starting from 1.0,
\* is below the threshold for the first time
FirstLow == CHOOSE k \in 1..MaxDecay : HopTriggered(Decay(k)) /\ ~HopTriggered(Decay(k - 1))

\* C19: from radio_quality 1.0 on a paired Sender whose radio accepts every
\* send, a run of failed reports takes the quality below the threshold within
\* 40 reports; until it does no HOP_REQUEST has been handed to the radio, and
\* from then up to the 40th report exactly one has (the quality having been
\* set back to 1.0 and decaying again).
C19_QualityDecay ==
    /\ FirstLow <= 40
    /\ HopTriggered(Decay(40))
    /\ ReportsHandled <= 40 =>
          IF ReportsHandled < FirstLow
          THEN hops.cmd = 0 /\ radio_quality = Decay(ReportsHandled)
          ELSE hops.cmd = 1 /\ radio_quality = Decay(ReportsHandled - FirstLow)

\* the 40th failed report in a row has been handled, and one HOP_REQUEST
\* went out on the way
C19_Witness ==
    /\ last.act = "onSent" /\ last.who = Sender /\ last.status = 1
    /\ ReportsHandled = 40
    /\ hops.cmd = 1
    /\ cbq[Sender] = <<>>

\* C20: an onSent of the Sender whose report belongs to the SEARCH broadcast
\* leaves radio_quality as it was, runs no hook and hands no frame to
\* esp_now_send, whether or not the Sender has paired in the meantime.
C20_BroadcastReportIgnored ==
    [][(last'.act = "onSent" /\ last'.who = Sender
          /\ last'.acked = <<CMD_SEARCH>>) =>
           /\ radio_quality' = radio_quality
           /\ last'.hooks = 0
           /\ last'.sends = <<>>]_vars

\* the tag of a frame handed to esp_now_send is a pairing tag
PairingFrame(data) == Len(data) >= 1 /\ data[1] \in {CMD_SEARCH, RPL_SEARCH}

\* C21: while an endpoint is matched no step of this boot (a received frame
\* of any kind from any address, a send report, reset(), the end of begin())
\* changes its peer.addr or peer.key, and no step of a matched endpoint hands
\* a SEARCH or a SEARCH_REPLY to esp_now_send.
C21_PeerWrittenOnlyUnpaired ==
    [][/\ \A e \in Endpoints :
              (matched[e] /\ last'.act # "boot") => peer'[e] = peer[e]
       /\ (last'.who \in Endpoints /\ matched[last'.who]) =>
              \A i \in 1..Len(last'.sends) : ~PairingFrame(last'.sends[i].data)]_vars

\* a matched Sender has just been handed a SEARCH_REPLY with another key
\* from the third station, and still has its Receiver's address and key
C21_Witness ==
    /\ last.act = "onReceived" /\ last.who = Sender
    /\ last.was_matched
    /\ last.from = MacX
    /\ last.data = <<RPL_SEARCH>> \o KeyBytes(2)
    /\ peer[Sender] = PeerRec(MacOf(Receiver), KeyBytes(1))

\* the Receiver's channel state is in range with a direction of +1 or -1
InRangeState == channel \in MIN_CHANNEL..MAX_CHANNEL /\ channel_direction \in {1, -1}

\* the candidate and the direction the reflection rule gives for (ch, dir)
Reflected(ch, dir) ==
    IF ch = 13 /\ dir = 1 THEN [channel |-> 12, direction |-> -1]
    ELSE IF ch = 1 /\ dir = -1 THEN [channel |-> 2, direction |-> 1]
    ELSE [channel |-> ch + dir, direction |-> dir]

\* C22: a HOP_REQUEST handled by a matched Receiver whose state is in range
\* with direction +1 or -1 yields the candidate 12 at (13, +1), 2 at (1, -1)
\* and channel + direction everywhere else, and puts it in the HOP_REPLY;
\* when the report of that reply is a success and wifi_set_channel succeeds,
\* the Receiver (still in the state the candidate was computed from) is on
\* the candidate, with the direction turned round at the two bounds and kept
\* everywhere else.
C22_ReflectionAtBounds ==
    [][/\ (ReceiverDid(last', "onReceived") /\ matched[Receiver]
             /\ last'.data = <<CMD_HOP>> /\ InRangeState) =>
              /\ new_channel' = Reflected(channel, channel_direction).channel
              /\ last'.sends[1].data = <<RPL_HOP, new_channel'>>
              /\ channel' = channel /\ channel_direction' = channel_direction
       /\ (ReceiverDid(last', "onSent") /\ matched[Receiver] /\ last'.status = 0
             /\ Len(last'.acked) = 2 /\ last'.acked[1] = RPL_HOP
             /\ last'.setch # <<>> /\ last'.setch[1].ok
             /\ InRangeState
             /\ new_channel = Reflected(channel, channel_direction).channel) =>
              /\ channel' = Reflected(channel, channel_direction).channel
              /\ channel_direction' = Reflected(channel, channel_direction).direction
              /\ last'.setch[1].channel = channel'
              /\ wifi_channel'[Receiver] = channel']_vars

\* a Receiver that was at (13, +1) answered one HOP_REQUEST with 12, and the
\* successful report of that reply has left it at (12, -1)
C22_Witness ==
    /\ ReceiverDid(last, "onSent") /\ last.status = 0
    /\ last.acked = <<RPL_HOP, 12>>
    /\ last.setch = <<SetCall(12, TRUE)>>
    /\ hops.req = 1 /\ hops.prev = 13 /\ hops.cand = 12
    /\ channel = 12 /\ channel_direction = -1

\* no received frame waits for a receive callback and no report for a send
\* callback, on either endpoint
NothingInFlight == \A e \in Endpoints : rxq[e] = <<>> /\ cbq[e] = <<>>

\* C23: in a cold pair no state is reached in which the Sender is matched,
\* the Receiver is not, and no frame or callback is in flight (from such a
\* state the Receiver could never become matched).
C23_NoPairingDeadlock ==
    ~(/\ ColdPaired(Sender)
      /\ ~matched[Receiver]
      /\ pc[Receiver] = "search"
      /\ NothingInFlight)

\* C24: every wifi_set_channel call the Sender makes from its receive
\* callback, for a 2-byte HOP_REPLY from any address with any channel byte,
\* has a channel in MIN_CHANNEL..MAX_CHANNEL.
C24_SenderChannelRange ==
    (last.act = "onReceived" /\ last.who = Sender) =>
        \A i \in 1..Len(last.setch) :
            last.setch[i].channel \in MIN_CHANNEL..MAX_CHANNEL

\* C25: after a one-sided reset of the Sender, as long as the Receiver holds
\* the blob of the old pairing, the Sender that booted without a blob does
\* not become matched.
C25_OneSidedReset ==
    (blob[Receiver] = PairedBlob(Receiver, KeyBytes(1)) /\ ~loaded[Sender]) =>
        ~matched[Sender]

\* C26: in the SBUS variant, until the Receiver has handled a CMD_HOP frame
\* its generator stays at INIT_CHANNEL with direction +1 and its radio stays
\* on INIT_CHANNEL; in particular the report of its search reply moves
\* nothing.
C26_SbusPairingDoesNotHop ==
    hops.req = 0 =>
        /\ channel = INIT_CHANNEL
        /\ channel_direction = 1
        /\ wifi_channel[Receiver] = INIT_CHANNEL

=============================================================================
